---- MODULE Spec2Model ----
(***************************************************************************)
(* State-machine model of the DeploymentSuccess React component            *)
(* (src/src/components/DeploymentSuccess.tsx).                             *)
(*                                                                         *)
(* JavaScript values are tagged records: Null, Undefined, Str(v), Num(n)   *)
(* and metadata objects.  Text whose characters matter (addresses, hashes, *)
(* URLs, symbols) is a sequence of one-character strings, so the empty     *)
(* string is <<>> and String.prototype.slice is computed on characters.    *)
(*                                                                         *)
(* The JSX reads five identifiers that line 2 does not import (Settings,   *)
(* Coins, Globe, Twitter, MessageCircle).  They resolve in the scope the   *)
(* module is loaded in; `bound` is the set of them that scope binds, and   *)
(* it is empty for the file as it stands.  A render that reads an unbound  *)
(* identifier throws ReferenceError, and the component is unmounted.       *)
(*                                                                         *)
(* React renders after the state setters have run.  An event handler, a    *)
(* prop change and a timer callback are tasks of their own and are         *)
(* rendered at once.  The setters called in a promise continuation are     *)
(* rendered at once by a root that renders inside each setter, and after   *)
(* the task by a root that batches; there the continuations of other       *)
(* promises settled in the same task run before the render, which is the   *)
(* step Render.  The React version is not part of the source, so a         *)
(* continuation takes either course.  The buttons a user can click, and    *)
(* the values their handlers closed over, are those of the last render     *)
(* (`screen`), also while a render is pending.                             *)
(***************************************************************************)
EXTENDS Integers, Sequences, FiniteSets, TLC

VARIABLES
    result,              \* the `result` prop (DeploymentResult)
    copied,              \* useState<string | null>(null)
    showMetadataForm,    \* useState(false)
    tokenMetadata,       \* useState<TokenMetadata | null>(null)
    isLoadingMetadata,   \* useState(false)
    fetches,             \* getTokenMetadata calls in flight, oldest first (their address)
    timers,              \* pending setTimeout callbacks, oldest first (ms left)
    clipboard,           \* <<>> or <<text>>: the last navigator.clipboard.writeText
    shares,              \* navigator.share calls in flight (the url each closure captured)
    requests,            \* window.ethereum.request calls in flight (their params)
    alerts,              \* number of alert() calls made
    errors,              \* the console.error messages logged so far
    hasShare,            \* navigator.share is defined
    hasEthereum,         \* typeof window.ethereum !== 'undefined'
    bound,               \* the unimported identifiers of the JSX that are bound
    mounted,             \* every render so far returned: the component is on screen
    onSaveHeld,          \* the form has been rendered: it holds handleMetadataSave
    renderPending,       \* state was set in this task and is not rendered yet
    screen,              \* the state the last render that returned was made of
    lastCopied,          \* history: the key of the latest copyToClipboard call
    ev                   \* history: the handler that ran last, and its input

vars == <<result, copied, showMetadataForm, tokenMetadata, isLoadingMetadata,
          fetches, timers, clipboard, shares, requests, alerts, errors,
          hasShare, hasEthereum, bound, mounted, onSaveHeld, renderPending,
          screen, lastCopied, ev>>

\* what the handlers outside the metadata panel leave alone
renderVars == <<bound, mounted, onSaveHeld, renderPending, screen>>

-----------------------------------------------------------------------------
(* Bounds of the model. *)

\* setTimeout callbacks pending at once
MaxTimers == 2

\* getTokenMetadata calls in flight at once
MaxFetches == 2

\* navigator.share calls in flight at once
MaxShares == 1

\* wallet requests in flight at once
MaxRequests == 1

\* alert() calls counted
MaxAlerts == 1

\* the longest transaction hash is HashDisplayLen + MaxHashOver characters
MaxHashOver == 3

-----------------------------------------------------------------------------
(* JavaScript values. *)

Null == [t |-> "null"]
Undefined == [t |-> "undefined"]
Str(v) == [t |-> "string", v |-> v]
Num(n) == [t |-> "number", v |-> n]

\* ToBoolean: undefined, null, '' and 0 are falsy.
Truthy(x) ==
    CASE x.t = "undefined" -> FALSE
      [] x.t = "null"      -> FALSE
      [] x.t = "string"    -> x.v # <<>>
      [] x.t = "number"    -> x.v # 0
      [] OTHER             -> TRUE

\* a || b
JsOr(a, b) == IF Truthy(a) THEN a ELSE b

\* s.slice(0, n) for 0 <= n
Slice0(s, n) == SubSeq(s, 1, IF Len(s) < n THEN Len(s) ELSE n)

-----------------------------------------------------------------------------
(* Program constants. *)

CopiedTimeoutMs == 2000
HashDisplayLen == 20
DefaultDecimals == 18
DefaultSymbol == <<"T", "O", "K", "E", "N">>
Ellipsis == <<".", ".", ".">>

\* The step by which the model's clock advances.
TickMs == CopiedTimeoutMs \div 4

-----------------------------------------------------------------------------
(* The props and service answers the model draws from. *)

AddrNone == <<>>
AddrA == <<"0", "x", "A">>
AddrB == <<"0", "x", "B">>
Addresses == {AddrNone, AddrA, AddrB}

HexDigits == <<"0", "1", "2", "3", "4", "5", "6", "7", "8", "9",
               "a", "b", "c", "d", "e", "f">>

\* A transaction hash of n characters.
HashOfLen(n) == [i \in 1..n |-> HexDigits[(i % 16) + 1]]

HashLens == {HashDisplayLen - 1, HashDisplayLen, HashDisplayLen + 1,
             HashDisplayLen + MaxHashOver}

Symbols == {Undefined, Str(<<>>), Str(<<"A", "B", "C">>)}
Decimals == {Undefined, Num(0), Num(6), Num(DefaultDecimals)}

ExplorerUrlOf(a) == <<"/", "a", "/">> \o a

MkResult(a, h, s, d) ==
    [contractAddress |-> a, explorerUrl |-> ExplorerUrlOf(a),
     transactionHash |-> h, symbol |-> s, decimals |-> d,
     tokenSymbol |-> Str(<<"T", "K">>)]

\* the results the metadata panel is run on: every address
ResultsMetadata ==
    {MkResult(a, HashOfLen(HashDisplayLen + MaxHashOver), Undefined, Num(0)) :
        a \in Addresses}

\* the results the copy and share handlers are run on: two addresses (and so
\* two explorer urls) and every hash
ResultsCopy ==
    {MkResult(a, HashOfLen(n), Undefined, Num(0)) :
        a \in {AddrNone, AddrA}, n \in HashLens}

\* the results the wallet handler is run on: every address, symbol and decimals
ResultsWallet ==
    {MkResult(a, HashOfLen(HashDisplayLen + MaxHashOver), s, d) :
        a \in Addresses, s \in Symbols, d \in Decimals}

Results == ResultsMetadata \cup ResultsCopy \cup ResultsWallet

\* The identifiers the JSX reads and line 2 does not import.
Icons == {"Settings", "Coins", "Globe", "Twitter", "MessageCircle"}

\* The file as it stands: none of them is bound.
FileScope == {}

\* The scopes the component is run in: the file as it stands, and the file
\* with the five identifiers bound.
Scopes == {FileScope, Icons}

\* The url fields of a TokenMetadata record the read view tests.
AUrl == Str(<<"u">>)
NoUrls == [logoUrl |-> Undefined, websiteUrl |-> Undefined,
           twitterUrl |-> Undefined, telegramUrl |-> Undefined]
LogoOnly == [logoUrl |-> AUrl, websiteUrl |-> Undefined,
             twitterUrl |-> Undefined, telegramUrl |-> Undefined]
AllUrls == [logoUrl |-> AUrl, websiteUrl |-> AUrl,
            twitterUrl |-> AUrl, telegramUrl |-> AUrl]
UrlShapes == {NoUrls, LogoOnly, AllUrls}

\* A TokenMetadata record for a contract; origin tells the fetched record
\* ("service") from the one the form passes to onSave ("form").
Metadata(a, origin, urls) ==
    [t |-> "object", tokenAddress |-> a, origin |-> origin,
     logoUrl |-> urls.logoUrl, websiteUrl |-> urls.websiteUrl,
     twitterUrl |-> urls.twitterUrl, telegramUrl |-> urls.telegramUrl]

\* the records getTokenMetadata(a) can resolve to
ServiceRecords(a) == {Metadata(a, "service", u) : u \in UrlShapes}

\* the records the form can pass to onSave
FormRecords == {Metadata(a, "form", u) : a \in Addresses, u \in UrlShapes}

Event(op, arg) == [op |-> op, arg |-> arg]

RemoveAt(s, i) == SubSeq(s, 1, i - 1) \o SubSeq(s, i + 1, Len(s))

-----------------------------------------------------------------------------
(* What the component renders. *)

\* the branch of the metadata panel (lines 201-302) a render takes
PanelBranch(loading, form, metadata) ==
    IF loading THEN "loading"
    ELSE IF form THEN "editing"
    ELSE IF Truthy(metadata) THEN "present"
    ELSE "empty"

\* the unimported identifiers the read view of a record reads
IconsOfReadView(metadata) ==
    (IF Truthy(metadata.logoUrl) THEN {} ELSE {"Coins"})
    \cup (IF Truthy(metadata.websiteUrl) THEN {"Globe"} ELSE {})
    \cup (IF Truthy(metadata.twitterUrl) THEN {"Twitter"} ELSE {})
    \cup (IF Truthy(metadata.telegramUrl) THEN {"MessageCircle"} ELSE {})

\* the unimported identifiers a render reads: Settings (line 348) always,
\* the icons of the read view when that branch is taken
IdentifiersRead(loading, form, metadata) ==
    {"Settings"}
    \cup (IF PanelBranch(loading, form, metadata) = "present"
          THEN IconsOfReadView(metadata) ELSE {})

\* the render returns: every identifier it reads is bound
Renders(loading, form, metadata) ==
    IdentifiersRead(loading, form, metadata) \subseteq bound

\* the view of the metadata panel the state stands for, which is on screen
\* unless a render is pending; "error" when a render has thrown and nothing
\* of the component is shown
View ==
    IF ~mounted THEN "error"
    ELSE PanelBranch(isLoadingMetadata, showMetadataForm, tokenMetadata)

\* the state a render is made of
Rendered(loading, form, metadata) ==
    [isLoadingMetadata |-> loading, showMetadataForm |-> form,
     tokenMetadata |-> metadata]

\* the branch of the metadata panel that is on screen
ScreenView ==
    IF ~mounted THEN "error"
    ELSE PanelBranch(screen.isLoadingMetadata, screen.showMetadataForm,
                     screen.tokenMetadata)

\* the render of the state the step leaves: a throw unmounts the component;
\* a render of the editing branch hands handleMetadataSave to the form
Rerender ==
    /\ bound' = bound
    /\ renderPending' = FALSE
    /\ screen' = IF mounted /\ Renders(isLoadingMetadata', showMetadataForm',
                                        tokenMetadata')
               THEN Rendered(isLoadingMetadata', showMetadataForm',
                             tokenMetadata')
               ELSE screen
    /\ mounted' = (mounted /\ Renders(isLoadingMetadata', showMetadataForm',
                                      tokenMetadata'))
    /\ onSaveHeld' =
          (onSaveHeld
             \/ (mounted' /\ PanelBranch(isLoadingMetadata', showMetadataForm',
                                         tokenMetadata') = "editing"))

\* the render is left to the end of the task (a batching root)
Defer ==
    /\ mounted
    /\ renderPending' = TRUE
    /\ UNCHANGED <<bound, mounted, onSaveHeld, screen>>

\* the render after the setters of a promise continuation
RenderAfterContinuation == Rerender \/ Defer

\* a state setter called with value v: it does nothing once the component
\* is unmounted
SetState(v, old) == IF mounted THEN v ELSE old

\* the record the read view renders (lines 214-289), Null when it is not shown
ReadViewRecord == IF View = "present" THEN tokenMetadata ELSE Null

\* the hash rendered with slice(0, 20) taken one character short
DisplayedHashShort == Slice0(result.transactionHash, HashDisplayLen - 1) \o Ellipsis

\* {result.transactionHash.slice(0, 20)}...
DisplayedHash == Slice0(result.transactionHash, HashDisplayLen) \o Ellipsis

-----------------------------------------------------------------------------
(* Copy and share. *)

\* copyToClipboard(text, type), as a relation on the state it touches
copyToClipboard(text, type) ==
    /\ Len(timers) < MaxTimers
    /\ clipboard' = <<text>>
    /\ copied' = SetState(Str(type), copied)
    /\ timers' = Append(timers, CopiedTimeoutMs)
    /\ lastCopied' = Str(type)

\* onClick of the address copy button
CopyAddress ==
    /\ mounted
    /\ ~renderPending
    /\ copyToClipboard(result.contractAddress, "address")
    /\ ev' = Event("copyAddress", Null)
    /\ UNCHANGED <<result, showMetadataForm, tokenMetadata, isLoadingMetadata,
                   fetches, shares, requests, alerts, errors, hasShare, hasEthereum>>
    /\ UNCHANGED renderVars

\* onClick of the transaction hash copy button
CopyTx ==
    /\ mounted
    /\ ~renderPending
    /\ copyToClipboard(result.transactionHash, "tx")
    /\ ev' = Event("copyTx", Null)
    /\ UNCHANGED <<result, showMetadataForm, tokenMetadata, isLoadingMetadata,
                   fetches, shares, requests, alerts, errors, hasShare, hasEthereum>>
    /\ UNCHANGED renderVars

\* the callback of setTimeout(() => setCopied(null), 2000): the oldest timer
\* fires once its delay has elapsed
TimerFire ==
    /\ ~renderPending
    /\ timers # <<>>
    /\ Head(timers) = 0
    /\ copied' = SetState(Null, copied)
    /\ timers' = Tail(timers)
    /\ ev' = Event("timer", Null)
    /\ UNCHANGED <<result, showMetadataForm, tokenMetadata, isLoadingMetadata,
                   fetches, clipboard, shares, requests, alerts, errors,
                   hasShare, hasEthereum, lastCopied>>
    /\ UNCHANGED renderVars

\* time passes: TickMs elapse, and no timer is left overdue
Tick ==
    /\ ~renderPending
    /\ timers # <<>>
    /\ \A i \in 1..Len(timers) : timers[i] > 0
    /\ timers' = [i \in 1..Len(timers) |->
                    IF timers[i] > TickMs THEN timers[i] - TickMs ELSE 0]
    /\ ev' = Event("tick", Null)
    /\ UNCHANGED <<result, copied, showMetadataForm, tokenMetadata,
                   isLoadingMetadata, fetches, clipboard, shares, requests,
                   alerts, errors, hasShare, hasEthereum, lastCopied>>
    /\ UNCHANGED renderVars

\* shareContract up to its await: without navigator.share the fallback copy
\* runs at once, otherwise the share call is in flight with the url of the
\* result this render closed over
shareContract ==
    /\ mounted
    /\ ~renderPending
    /\ IF hasShare
       THEN /\ Len(shares) < MaxShares
            /\ shares' = Append(shares, result.explorerUrl)
            /\ ev' = Event("share", Null)
            /\ UNCHANGED <<copied, timers, clipboard, lastCopied>>
       ELSE /\ copyToClipboard(result.explorerUrl, "share")
            /\ ev' = Event("shareFallback", Str(result.explorerUrl))
            /\ UNCHANGED shares
    /\ UNCHANGED <<result, showMetadataForm, tokenMetadata, isLoadingMetadata,
                   fetches, requests, alerts, errors, hasShare, hasEthereum>>
    /\ UNCHANGED renderVars

\* navigator.share resolved: shareContract returns
ShareResolved(i) ==
    /\ shares' = RemoveAt(shares, i)
    /\ ev' = Event("shareResolved", Null)
    /\ UNCHANGED <<result, copied, showMetadataForm, tokenMetadata,
                   isLoadingMetadata, fetches, timers, clipboard, requests,
                   alerts, errors, hasShare, hasEthereum, lastCopied>>
    /\ UNCHANGED renderVars

\* ShareRejected with a catch block that only logs
ShareRejectedLogsOnly(i) ==
    /\ shares' = RemoveAt(shares, i)
    /\ errors' = errors \cup {"Error sharing:"}
    /\ ev' = Event("shareRejected", Str(shares[i]))
    /\ UNCHANGED <<result, copied, showMetadataForm, tokenMetadata,
                   isLoadingMetadata, fetches, timers, clipboard, requests,
                   alerts, hasShare, hasEthereum, lastCopied>>
    /\ UNCHANGED renderVars

\* navigator.share rejected: the catch block logs and copies the url
ShareRejected(i) ==
    /\ shares' = RemoveAt(shares, i)
    /\ errors' = errors \cup {"Error sharing:"}
    /\ copyToClipboard(shares[i], "share")
    /\ ev' = Event("shareRejected", Str(shares[i]))
    /\ UNCHANGED <<result, showMetadataForm, tokenMetadata, isLoadingMetadata,
                   fetches, requests, alerts, hasShare, hasEthereum>>
    /\ RenderAfterContinuation

-----------------------------------------------------------------------------
(* The metadata panel. *)

\* handleMetadataSave without its setShowMetadataForm(false)
handleMetadataSaveKeepsForm(metadata) ==
    /\ mounted
    /\ onSaveHeld
    /\ tokenMetadata' = metadata
    /\ ev' = Event("save", metadata)
    /\ UNCHANGED <<result, copied, showMetadataForm, isLoadingMetadata, fetches,
                   timers, clipboard, shares, requests, alerts, errors, hasShare,
                   hasEthereum, lastCopied>>
    /\ RenderAfterContinuation

\* handleMetadataSave(metadata): the onSave prop of TokenMetadataForm, which
\* the form can call once it has been rendered
handleMetadataSave(metadata) ==
    /\ mounted
    /\ onSaveHeld
    /\ tokenMetadata' = metadata
    /\ showMetadataForm' = FALSE
    /\ ev' = Event("save", metadata)
    /\ UNCHANGED <<result, copied, isLoadingMetadata, fetches, timers, clipboard,
                   shares, requests, alerts, errors, hasShare, hasEthereum,
                   lastCopied>>
    /\ RenderAfterContinuation

\* onClick of the header button (Hide Form / Edit Metadata / Add Metadata):
\* the button of the last render, with the showMetadataForm it closed over
ToggleForm ==
    /\ mounted
    /\ ~screen.isLoadingMetadata
    /\ showMetadataForm' = ~screen.showMetadataForm
    /\ ev' = Event("toggle", Null)
    /\ UNCHANGED <<result, copied, tokenMetadata, isLoadingMetadata, fetches,
                   timers, clipboard, shares, requests, alerts, errors,
                   hasShare, hasEthereum, lastCopied>>
    /\ Rerender

\* onClick of "Add Token Metadata", the button of the empty state of the
\* last render
AddTokenMetadata ==
    /\ ScreenView = "empty"
    /\ showMetadataForm' = TRUE
    /\ ev' = Event("add", Null)
    /\ UNCHANGED <<result, copied, tokenMetadata, isLoadingMetadata, fetches,
                   timers, clipboard, shares, requests, alerts, errors,
                   hasShare, hasEthereum, lastCopied>>
    /\ Rerender

\* the render a batching root makes at the end of the task, of the state the
\* continuations of the task have left
Render ==
    /\ renderPending
    /\ ev' = Event("render", Null)
    /\ UNCHANGED <<result, copied, showMetadataForm, tokenMetadata,
                   isLoadingMetadata, fetches, timers, clipboard, shares,
                   requests, alerts, errors, hasShare, hasEthereum, lastCopied>>
    /\ Rerender

\* checkMetadata up to its await, run by the effect for contract address a
checkMetadata(a) ==
    IF Truthy(Str(a))
    THEN /\ Len(fetches) < MaxFetches
         /\ isLoadingMetadata' = TRUE
         /\ fetches' = Append(fetches, a)
    ELSE UNCHANGED <<isLoadingMetadata, fetches>>

\* the parent renders the component with another result; the effect runs
\* again when result.contractAddress is not the one of the last render
ChangeResult(r) ==
    /\ mounted
    /\ ~renderPending
    /\ r # result
    /\ result' = r
    /\ IF r.contractAddress # result.contractAddress
       THEN checkMetadata(r.contractAddress)
       ELSE UNCHANGED <<isLoadingMetadata, fetches>>
    /\ ev' = Event("props", Null)
    /\ UNCHANGED <<copied, showMetadataForm, tokenMetadata, timers, clipboard,
                   shares, requests, alerts, errors, hasShare, hasEthereum,
                   lastCopied>>
    /\ Rerender

\* checkMetadata after its await resolved with metadata, on a root that
\* renders inside each setter: setTokenMetadata, then (when hides)
\* setShowMetadataForm(false), each followed by its render; a render that
\* throws there unmounts the component and lands in the catch block, which
\* logs; then the finally block's setIsLoadingMetadata(false) and its render,
\* whose throw nothing catches
ResolvedInSetters(metadata, hides) ==
    LET tm1 == SetState(metadata, tokenMetadata)
        okA == mounted /\ Renders(isLoadingMetadata, showMetadataForm, tm1)
        f1  == IF okA /\ hides THEN FALSE ELSE showMetadataForm
        okB == okA /\ Renders(isLoadingMetadata, f1, tm1)
        l1  == IF okB THEN FALSE ELSE isLoadingMetadata
        okC == okB /\ Renders(FALSE, f1, tm1)
    IN  /\ ~renderPending
        /\ tokenMetadata' = tm1
        /\ showMetadataForm' = f1
        /\ isLoadingMetadata' = l1
        /\ errors' = IF mounted /\ ~okB
                     THEN errors \cup {"Error fetching token metadata:"}
                     ELSE errors
        /\ mounted' = okC
        /\ onSaveHeld' =
              (onSaveHeld
                 \/ (okA /\ PanelBranch(isLoadingMetadata, showMetadataForm,
                                        tm1) = "editing")
                 \/ (okB /\ PanelBranch(isLoadingMetadata, f1, tm1) = "editing")
                 \/ (okC /\ PanelBranch(FALSE, f1, tm1) = "editing"))
        /\ screen' = IF okC THEN Rendered(FALSE, f1, tm1) ELSE screen
        /\ renderPending' = FALSE
        /\ bound' = bound

\* the same setters on a batching root: no render, and so no throw, inside
\* the try; the render waits for the end of the task
ResolvedBatched(metadata, hides) ==
    /\ tokenMetadata' = metadata
    /\ showMetadataForm' = IF hides THEN FALSE ELSE showMetadataForm
    /\ isLoadingMetadata' = FALSE
    /\ errors' = errors
    /\ Defer

\* getTokenMetadata resolved with metadata for the i-th fetch in flight
Resolved(i, metadata, hides) ==
    /\ fetches' = RemoveAt(fetches, i)
    /\ ev' = Event("fetchResolved", metadata)
    /\ UNCHANGED <<result, copied, timers, clipboard, shares, requests, alerts,
                   hasShare, hasEthereum, lastCopied>>
    /\ (ResolvedInSetters(metadata, hides) \/ ResolvedBatched(metadata, hides))

\* FetchResolved without the setShowMetadataForm(false) of the try block
FetchResolvedKeepsForm(i, metadata) == Resolved(i, metadata, FALSE)

\* getTokenMetadata resolved with metadata (a record or null): the rest of
\* the try block, where if (metadata) decides setShowMetadataForm(false),
\* then the finally block
FetchResolved(i, metadata) == Resolved(i, metadata, Truthy(metadata))

\* getTokenMetadata rejected: the catch block logs, then the finally block
FetchRejected(i) ==
    /\ fetches' = RemoveAt(fetches, i)
    /\ errors' = errors \cup {"Error fetching token metadata:"}
    /\ isLoadingMetadata' = SetState(FALSE, isLoadingMetadata)
    /\ ev' = Event("fetchRejected", Null)
    /\ UNCHANGED <<result, copied, showMetadataForm, tokenMetadata, timers,
                   clipboard, shares, requests, alerts, hasShare, hasEthereum,
                   lastCopied>>
    /\ RenderAfterContinuation

-----------------------------------------------------------------------------
(* Wallet registration. *)

\* the params of the wallet_watchAsset request built from the result prop
WatchAssetParams(r) ==
    [method |-> "wallet_watchAsset",
     type |-> "ERC20",
     address |-> Str(r.contractAddress),
     symbol |-> JsOr(r.symbol, Str(DefaultSymbol)),
     decimals |-> JsOr(r.decimals, Num(DefaultDecimals)),
     image |-> Str(<<>>)]

\* addTokenToMetaMask without the typeof window.ethereum check
addTokenToMetaMaskUnchecked ==
    /\ mounted
    /\ ~renderPending
    /\ Len(requests) < MaxRequests
    /\ requests' = Append(requests, WatchAssetParams(result))
    /\ ev' = Event("addToken", Null)
    /\ UNCHANGED <<result, copied, showMetadataForm, tokenMetadata,
                   isLoadingMetadata, fetches, timers, clipboard, shares, alerts,
                   errors, hasShare, hasEthereum, lastCopied>>
    /\ UNCHANGED renderVars

\* addTokenToMetaMask up to its await: without a provider an alert and an
\* early return, otherwise the provider request is in flight
addTokenToMetaMask ==
    /\ mounted
    /\ ~renderPending
    /\ IF ~hasEthereum
       THEN /\ alerts < MaxAlerts
            /\ alerts' = alerts + 1
            /\ ev' = Event("addTokenNoProvider", Null)
            /\ UNCHANGED requests
       ELSE /\ Len(requests) < MaxRequests
            /\ requests' = Append(requests, WatchAssetParams(result))
            /\ ev' = Event("addToken", Null)
            /\ UNCHANGED alerts
    /\ UNCHANGED <<result, copied, showMetadataForm, tokenMetadata,
                   isLoadingMetadata, fetches, timers, clipboard, shares,
                   errors, hasShare, hasEthereum, lastCopied>>
    /\ UNCHANGED renderVars

\* window.ethereum.request resolved: addTokenToMetaMask returns
WalletResolved(i) ==
    /\ requests' = RemoveAt(requests, i)
    /\ ev' = Event("walletResolved", Null)
    /\ UNCHANGED <<result, copied, showMetadataForm, tokenMetadata,
                   isLoadingMetadata, fetches, timers, clipboard, shares,
                   alerts, errors, hasShare, hasEthereum, lastCopied>>
    /\ UNCHANGED renderVars

\* WalletRejected with a catch block that issues the request again
WalletRejectedRetries(i) ==
    /\ requests' = Append(RemoveAt(requests, i), requests[i])
    /\ errors' = errors \cup {"Error adding token to MetaMask:"}
    /\ ev' = Event("walletRejected", Null)
    /\ UNCHANGED <<result, copied, showMetadataForm, tokenMetadata,
                   isLoadingMetadata, fetches, timers, clipboard, shares,
                   alerts, hasShare, hasEthereum, lastCopied>>
    /\ UNCHANGED renderVars

\* window.ethereum.request rejected: the catch block logs
WalletRejected(i) ==
    /\ requests' = RemoveAt(requests, i)
    /\ errors' = errors \cup {"Error adding token to MetaMask:"}
    /\ ev' = Event("walletRejected", Null)
    /\ UNCHANGED <<result, copied, showMetadataForm, tokenMetadata,
                   isLoadingMetadata, fetches, timers, clipboard, shares,
                   alerts, hasShare, hasEthereum, lastCopied>>
    /\ UNCHANGED renderVars

-----------------------------------------------------------------------------
(* The component after its first render and, when that render returned,   *)
(* its mount effect: given a result from the set R, a browser with         *)
(* navigator.share in S and an injected wallet provider in E, and a scope  *)
(* from B.  When the first render throws, nothing is mounted and the       *)
(* effect does not run.                                                    *)

InitWith(R, S, E, B) ==
    /\ result \in R
    /\ bound \in B
    /\ mounted = Renders(FALSE, FALSE, Null)
    /\ onSaveHeld = FALSE
    /\ renderPending = FALSE
    /\ copied = Null
    /\ showMetadataForm = FALSE
    /\ tokenMetadata = Null
    /\ isLoadingMetadata = (mounted /\ Truthy(Str(result.contractAddress)))
    /\ fetches = IF mounted /\ Truthy(Str(result.contractAddress))
                 THEN <<result.contractAddress>> ELSE <<>>
    /\ screen = Rendered(isLoadingMetadata, showMetadataForm, tokenMetadata)
    /\ timers = <<>>
    /\ clipboard = <<>>
    /\ shares = <<>>
    /\ requests = <<>>
    /\ alerts = 0
    /\ errors = {}
    /\ hasShare \in S
    /\ hasEthereum \in E
    /\ lastCopied = Null
    /\ ev = Event("mount", Null)

CopyStep ==
    \/ CopyAddress
    \/ CopyTx
    \/ TimerFire
    \/ Tick
    \/ shareContract
    \/ \E i \in 1..Len(shares) : ShareResolved(i)
    \/ \E i \in 1..Len(shares) : ShareRejected(i)

MetadataStep ==
    \/ \E metadata \in FormRecords : handleMetadataSave(metadata)
    \/ ToggleForm
    \/ AddTokenMetadata
    \/ \E i \in 1..Len(fetches) :
          \E metadata \in {Null} \cup ServiceRecords(fetches[i]) :
             FetchResolved(i, metadata)
    \/ \E i \in 1..Len(fetches) : FetchRejected(i)

WalletStep ==
    \/ addTokenToMetaMask
    \/ \E i \in 1..Len(requests) : WalletResolved(i)
    \/ \E i \in 1..Len(requests) : WalletRejected(i)

\* The whole component.
Init == InitWith(Results, BOOLEAN, BOOLEAN, Scopes)
Next ==
    \/ CopyStep
    \/ MetadataStep
    \/ WalletStep
    \/ Render
    \/ \E r \in Results : ChangeResult(r)
Spec == Init /\ [][Next]_vars

\* The handlers of the three panels write disjoint state and share only the
\* result prop, so each panel is also run on its own with the prop changes.
InitCopy == InitWith(ResultsCopy, BOOLEAN, {FALSE}, Scopes)
NextCopy == CopyStep \/ Render \/ \E r \in ResultsCopy : ChangeResult(r)
SpecCopy == InitCopy /\ [][NextCopy]_vars

InitMetadata == InitWith(ResultsMetadata, {FALSE}, {FALSE}, Scopes)
NextMetadata ==
    MetadataStep \/ Render \/ \E r \in ResultsMetadata : ChangeResult(r)
SpecMetadata == InitMetadata /\ [][NextMetadata]_vars

InitWallet == InitWith(ResultsWallet, {FALSE}, BOOLEAN, Scopes)
NextWallet == WalletStep \/ \E r \in ResultsWallet : ChangeResult(r)
SpecWallet == InitWallet /\ [][NextWallet]_vars

-----------------------------------------------------------------------------
(* C1 - copy confirmation flag. *)

\* C1: copyToClipboard(text, key) sets copied to key; the flag of the latest
\* copy stays set until 2000 ms after that copy (while its own timer, the
\* newest one, has time left) and is null once every timer has fired.
C1_FlagLastsItsOwnTimeout ==
    /\ (timers # <<>> /\ timers[Len(timers)] > 0) => copied = lastCopied
    /\ (ev.op \in {"copyAddress", "copyTx", "shareFallback", "shareRejected"})
          => (copied = lastCopied /\ copied # Null)
    /\ timers = <<>> => copied = Null

-----------------------------------------------------------------------------
(* C2, C3, C4 - what a settled metadata fetch leaves behind. *)

\* C2: when a fetch has resolved to a record, loading is off, the form is
\* hidden and tokenMetadata is the fetched record, whatever the form flag was
\* before; the panel's view is the read view of that record, and it is the
\* one on screen once the state is rendered.
C2_FetchedRecordShowsReadView ==
    (ev.op = "fetchResolved" /\ Truthy(ev.arg)) =>
        /\ ~isLoadingMetadata
        /\ ~showMetadataForm
        /\ tokenMetadata = ev.arg
        /\ View = "present"
        /\ ReadViewRecord = ev.arg
        /\ ~renderPending =>
              (ScreenView = "present" /\ screen.tokenMetadata = ev.arg)

C2_Witness ==
    /\ ev.op = "fetchResolved"
    /\ Truthy(ev.arg)
    /\ ev.arg.tokenAddress = result.contractAddress
    /\ onSaveHeld
    /\ ~renderPending
    /\ ScreenView = "present"
    /\ screen.tokenMetadata = ev.arg

\* C3: when a fetch of the mounted component has resolved to no record, the
\* panel shows the empty-state call-to-action: neither the form nor a read
\* view.
C3_NoRecordShowsEmptyState ==
    (mounted /\ ev.op = "fetchResolved" /\ ~Truthy(ev.arg)) => View = "empty"

\* C4: when a fetch of the mounted component has been rejected, the error is
\* logged, tokenMetadata is null and loading is off.
C4_FailedFetchFallsBackToEmpty ==
    (mounted /\ ev.op = "fetchRejected") =>
        /\ "Error fetching token metadata:" \in errors
        /\ tokenMetadata = Null
        /\ ~isLoadingMetadata

-----------------------------------------------------------------------------
(* C5, C6 - wallet registration. *)

\* C5: a click on "Add to MetaMask" with no injected provider shows one
\* alert, issues no provider request and changes no component state.
C5_NoProviderAlertsAndAborts ==
    [][(~hasEthereum /\ ev'.op \in {"addToken", "addTokenNoProvider"}) =>
          /\ alerts' = alerts + 1
          /\ requests' = requests
          /\ requests' = <<>>
          /\ UNCHANGED <<copied, showMetadataForm, tokenMetadata,
                         isLoadingMetadata, result, clipboard, errors>>]_vars

C5_Witness ==
    /\ ~hasEthereum
    /\ ev.op = "addTokenNoProvider"
    /\ alerts = 1
    /\ requests = <<>>

\* C6: the request just issued is a wallet_watchAsset request carrying the
\* result's contract address, its symbol and its decimals; "TOKEN" and 18
\* stand in only for a value that is undefined.
C6_RequestCarriesResultValues ==
    ev.op = "addToken" =>
        LET q == requests[Len(requests)] IN
        /\ q.method = "wallet_watchAsset"
        /\ q.address = Str(result.contractAddress)
        /\ q.symbol = (IF result.symbol = Undefined
                       THEN Str(DefaultSymbol) ELSE result.symbol)
        /\ q.decimals = (IF result.decimals = Undefined
                         THEN Num(DefaultDecimals) ELSE result.decimals)

-----------------------------------------------------------------------------
(* C7, C8 - share and the transaction hash. *)

\* C7: shareContract without navigator.share copies result.explorerUrl and
\* sets copied to 'share' at once; with navigator.share it only starts the
\* native share, for the url of the result it was invoked with; a rejected
\* share copies that url and sets copied to 'share'; a resolved share leaves
\* the clipboard and the flag as they were.
C7_ShareFallsBackToClipboard ==
    [][/\ (ev'.op \in {"share", "shareFallback"} /\ ~hasShare) =>
             /\ clipboard' = <<result.explorerUrl>>
             /\ copied' = Str("share")
             /\ shares' = shares
       /\ (ev'.op \in {"share", "shareFallback"} /\ hasShare) =>
             /\ shares' = Append(shares, result.explorerUrl)
             /\ UNCHANGED <<clipboard, copied, timers>>
       /\ ev'.op = "shareRejected" =>
             \E i \in 1..Len(shares) :
                /\ shares' = RemoveAt(shares, i)
                /\ clipboard' = <<shares[i]>>
                /\ copied' = Str("share")
       /\ ev'.op = "shareResolved" =>
             /\ Len(shares') = Len(shares) - 1
             /\ UNCHANGED <<clipboard, copied, timers>>]_vars

C7_Witness ==
    /\ hasShare
    /\ ev.op = "shareRejected"
    /\ copied = Str("share")
    /\ clipboard = <<ev.arg.v>>
    /\ "Error sharing:" \in errors

\* C8: a transaction hash longer than 20 characters is displayed as its
\* first 20 characters followed by "..."; the copy button of the hash writes
\* the whole hash to the clipboard.
C8_HashTruncatedCopyFull ==
    LET h == result.transactionHash IN
    /\ Len(h) > HashDisplayLen =>
          /\ Len(DisplayedHash) = HashDisplayLen + 3
          /\ \A i \in 1..HashDisplayLen : DisplayedHash[i] = h[i]
          /\ \A i \in (HashDisplayLen + 1)..(HashDisplayLen + 3) :
                DisplayedHash[i] = "."
    /\ ev.op = "copyTx" => (clipboard = <<h>> /\ copied = Str("tx"))

C8_Witness ==
    /\ Len(result.transactionHash) > HashDisplayLen
    /\ DisplayedHash # result.transactionHash
    /\ ev.op = "copyTx"
    /\ clipboard = <<result.transactionHash>>

-----------------------------------------------------------------------------
(* C9, C10 - the metadata panel's states. *)

\* C9: every handleMetadataSave(record) step leaves tokenMetadata the saved
\* record and the form hidden, with copied and the loading flag unchanged;
\* taken while nothing is loading (from the editing view) it leaves the
\* present view of the saved record, which is on screen once rendered.
C9_SaveMovesEditingToPresent ==
    [][ev'.op = "save" =>
          /\ Truthy(ev'.arg)
          /\ tokenMetadata' = ev'.arg
          /\ ~showMetadataForm'
          /\ UNCHANGED <<copied, isLoadingMetadata>>
          /\ ~isLoadingMetadata =>
                /\ View' = "present"
                /\ ReadViewRecord' = ev'.arg
                /\ ~renderPending' =>
                      (ScreenView' = "present"
                         /\ screen'.tokenMetadata = ev'.arg)]_vars

C9_Witness ==
    /\ ev.op = "save"
    /\ ~renderPending
    /\ ScreenView = "present"
    /\ screen.tokenMetadata = ev.arg
    /\ ev.arg.origin = "form"
    /\ ~showMetadataForm

\* The transitions of C10 as the specification lists them.
SpecTransitions ==
    {<<"loading", "fetchResolved", "empty">>,
     <<"loading", "fetchRejected", "empty">>,
     <<"loading", "fetchResolved", "present">>,
     <<"loading", "fetchRejected", "present">>,
     <<"present", "toggle", "editing">>,
     <<"editing", "toggle", "present">>,
     <<"editing", "save", "present">>,
     <<"empty", "add", "editing">>,
     <<"empty", "toggle", "editing">>}

\* C10: user actions and fetch outcomes change the view of the metadata
\* panel only along the transitions the specification lists.
C10_OnlySpecTransitions ==
    [][(View' # View /\ ev'.op # "props") =>
          <<View, ev'.op, View'>> \in SpecTransitions]_vars

-----------------------------------------------------------------------------
(* C11, C13 - the loading flag and the record of overlapping fetches. *)

\* C11: in the mounted component, while a metadata fetch is in flight
\* isLoadingMetadata is true; once
\* a fetch has settled (resolved or rejected) the flag is off; a mount with
\* an empty contract address starts no fetch and leaves the flag unset.
C11_LoadingUntilFetchSettles ==
    mounted =>
        /\ fetches # <<>> => isLoadingMetadata
        /\ ev.op \in {"fetchResolved", "fetchRejected"} => ~isLoadingMetadata
        /\ (ev.op = "mount" /\ result.contractAddress = AddrNone) =>
              (fetches = <<>> /\ ~isLoadingMetadata)

-----------------------------------------------------------------------------
(* C12 - one wallet request per click. *)

\* C12: a click on "Add to MetaMask" with a provider present issues exactly
\* one wallet_watchAsset request and no alert; when a request is rejected the
\* error is logged, no request is issued in its place, and copied,
\* showMetadataForm, tokenMetadata and isLoadingMetadata are unchanged.
C12_OneRequestErrorsOnlyLogged ==
    [][/\ (hasEthereum /\ ev'.op \in {"addToken", "addTokenNoProvider"}) =>
             /\ Len(requests') = Len(requests) + 1
             /\ SubSeq(requests', 1, Len(requests)) = requests
             /\ requests'[Len(requests')].method = "wallet_watchAsset"
             /\ requests'[Len(requests')].address = Str(result.contractAddress)
             /\ UNCHANGED <<alerts, errors, copied, showMetadataForm,
                            tokenMetadata, isLoadingMetadata>>
       /\ ev'.op = "walletRejected" =>
             /\ \E i \in 1..Len(requests) : requests' = RemoveAt(requests, i)
             /\ "Error adding token to MetaMask:" \in errors'
             /\ UNCHANGED <<alerts, copied, showMetadataForm, tokenMetadata,
                            isLoadingMetadata, result, clipboard>>]_vars

C12_Witness ==
    /\ hasEthereum
    /\ ev.op = "walletRejected"
    /\ "Error adding token to MetaMask:" \in errors
    /\ requests = <<>>
    /\ alerts = 0

-----------------------------------------------------------------------------
(* C13 - the record belongs to the current contract. *)

\* C13: in the mounted component, a fetch that settles for an address other
\* than the current result.contractAddress (a late response of an earlier
\* fetch) does not change tokenMetadata, and does not change
\* isLoadingMetadata while a fetch for the current address is in flight; and
\* when a settling fetch leaves no fetch in flight, a fetched record held is
\* one of the current address.
C13_LateResponseNeverOverwrites ==
    [][(mounted' /\ ev'.op \in {"fetchResolved", "fetchRejected"}) =>
          /\ \A i \in 1..Len(fetches) :
                (fetches' = RemoveAt(fetches, i)
                    /\ fetches[i] # result.contractAddress)
                => /\ tokenMetadata' = tokenMetadata
                   /\ (\E j \in 1..Len(fetches') :
                          fetches'[j] = result.contractAddress)
                      => isLoadingMetadata' = isLoadingMetadata
          /\ (fetches' = <<>> /\ Truthy(tokenMetadata')
                /\ tokenMetadata'.origin = "service") =>
                tokenMetadata'.tokenAddress = result'.contractAddress]_vars

====
